---- MODULE Spec2Model ----
(***************************************************************************)
(* A model of four pieces of the COBS / isi / genome index tool chain:     *)
(*   - cobs::DocumentList (document_list.hpp): directory scan, sort,       *)
(*     process_batches;                                                    *)
(*   - isi::query::compact_index::aio (aio.cpp): constructor offsets and   *)
(*     read_from_disk;                                                     *)
(*   - genome::msbf::create_folders and create_msbf_from_samples;          *)
(*   - genome::msbf::combine_bloom_filters and the merge loop.             *)
(* Each piece has its own specification (SpecDL, SpecAio and SpecAioCtor,  *)
(* SpecFolders, SpecMerge) over its own variables; the variables of the    *)
(* other pieces stay at their idle values.                                 *)
(***************************************************************************)
EXTENDS Integers, Sequences, FiniteSets, TLC

VARIABLES
    \* ---- cobs::DocumentList
    dl_pc,           \* "new" | "ready" | "batching" | "batched"
    dl_ctor,         \* which constructor ran: "none" | "list" | "dir"
    dl_tree,         \* the directory tree handed to DocumentList(dir, filter)
    dl_filter,       \* the FileType filter handed to DocumentList(dir, filter)
    list_,           \* DocumentList::list_
    pb_size,         \* process_batches: batch_size
    pb_i,            \* process_batches: loop index i (0-based, as in the code)
    pb_j,            \* process_batches: batch counter j
    pb_batch,        \* process_batches: local vector batch
    pb_first,        \* process_batches: first_filename
    pb_last,         \* process_batches: last_filename
    pb_calls,        \* the calls func(batch, out_file) made so far, in order
    \* ---- isi::query::compact_index::aio
    aio_pc,          \* "new" | "ready" | "submit" | "wait" | "returned" |
                     \* "exit_error" | "crashed"
    aio_exit,        \* the call that ended the process: "none" | "page_size" |
                     \* "io_submit" | "io_getevents"
    hdr_page_size,   \* m_header.page_size()
    hdr_sigs,        \* signature_size of m_header.parameters()[0..S-1]
    curr_pos,        \* m_smd.curr_pos
    m_offsets,       \* aio::m_offsets
    offsets_oob,     \* a write to m_offsets fell outside the table
    m_iocbs,         \* aio::m_iocbs
    m_iocbpp,        \* aio::m_iocbpp, as indices into m_iocbs
    rd_hashes,       \* read_from_disk: hashes
    rd_set,          \* control blocks whose buffer and offset this call set
    rd_submitted,    \* the requests io_submit was handed, in order
    rd_ret,          \* the last value of ret
    rows_mem,        \* the page slots of rows: file offset of the page held, 0 = none
    \* ---- genome::msbf::create_msbf_from_samples, create_folders
    cf_pc,           \* "new" | "folders" | "blooms" | "bloomed" | "assert_failed"
    cf_input,        \* the regular files under in_dir when the call began
    cf_in,           \* the regular files under in_dir now
    cf_out,          \* the files under out_dir: [group, fname, src]
    cf_dirs,         \* the group directories created under out_dir
    cf_G,            \* msbf_batch_size (create_folders: batch_size)
    cf_pbs,          \* processing_batch_size
    cf_ndebug,       \* the build compiles assert() out
    cf_paths,        \* create_folders: paths, sorted
    cf_k,            \* create_folders: files of paths already visited
    cf_batch,        \* create_folders: batch
    cf_i,            \* create_folders: i
    cf_sub,          \* create_folders: the group of sub_out_dir, 0 = unset
    \* ---- genome::msbf::combine_bloom_filters and the merge loop
    mg_pc,           \* "loop" | "done"
    mg_blocks,       \* blocks in each group directory of bloom<iteration>
    mg_B,            \* processing_batch_size, the batch size of a merge
    mg_iter,         \* iteration
    mg_ret           \* what combine_bloom_filters returned last

dlVars == <<dl_pc, dl_ctor, dl_tree, dl_filter, list_, pb_size, pb_i, pb_j,
            pb_batch, pb_first, pb_last, pb_calls>>

aioVars == <<aio_pc, aio_exit, hdr_page_size, hdr_sigs, curr_pos, m_offsets,
             offsets_oob, m_iocbs, m_iocbpp, rd_hashes, rd_set, rd_submitted,
             rd_ret, rows_mem>>

cfVars == <<cf_pc, cf_input, cf_in, cf_out, cf_dirs, cf_G, cf_pbs, cf_ndebug,
            cf_paths, cf_k, cf_batch, cf_i, cf_sub>>

mgVars == <<mg_pc, mg_blocks, mg_B, mg_iter, mg_ret>>

vars == <<dlVars, aioVars, cfVars, mgVars>>

\* ------------------------------------------------------------------------
\* General helpers
\* ------------------------------------------------------------------------

Min(a, b) == IF a < b THEN a ELSE b

CeilDiv(n, d) == (n + d - 1) \div d

Range(s) == {s[k] : k \in 1..Len(s)}

RemoveAt(s, k) == SubSeq(s, 1, k - 1) \o SubSeq(s, k + 1, Len(s))

IndexOf(s, x) == CHOOSE k \in 1..Len(s) : s[k] = x

\* all enumerations (orders) of a finite set
RECURSIVE Orders(_)
Orders(S) ==
    IF S = {} THEN {<<>>}
    ELSE UNION {{<<x>> \o r : r \in Orders(S \ {x})} : x \in S}

\* all sequences over S of length at most n
RECURSIVE SeqsUpTo(_, _)
SeqsUpTo(S, n) ==
    IF n = 0 THEN {<<>>}
    ELSE SeqsUpTo(S, n - 1) \cup
         {Append(s, x) : s \in {t \in SeqsUpTo(S, n - 1) : Len(t) = n - 1}, x \in S}

\* ------------------------------------------------------------------------
\* cobs::DocumentList
\* ------------------------------------------------------------------------

\* Bounds of the DocumentList model
MaxList == 3
MaxBatch == 3

\* enum class FileType
FileType == {"Any", "Text", "Cortex", "KMerBuffer", "Fasta", "Fastq"}

\* A path is a file name "<stem><ext>"; stems and extensions are listed in
\* ascending character order, so that the (stem, ext) order below is the
\* lexicographic order of the names ('.' sorts before the letters).
\* Path("", "") is the empty path of a default-constructed DocumentEntry.
Stems == <<"", "a", "b">>
Exts == <<"", ".cobs_doc", ".ctx", ".dat", ".fasta", ".fastq", ".txt">>

Path(s, e) == [stem |-> s, ext |-> e]

PathRank(p) == IndexOf(Stems, p.stem) * (Len(Exts) + 1) + IndexOf(Exts, p.ext)

\* fs::path operator<
PathLess(p, q) == PathRank(p) < PathRank(q)

\* fs::path::extension()
extension(p) == p.ext

\* cobs::base_name: the file name without directory and extension
base_name(p) == p.stem

\* DocumentEntry
Entry(p, t, sz, sub) == [path_ |-> p, type_ |-> t, size_ |-> sz, subdoc_index_ |-> sub]

\* DocumentEntry::operator<
EntryLess(a, b) == PathLess(a.path_, b.path_)

\* std::sort(list_.begin(), list_.end()): the order of equivalent elements is
\* unspecified, so the result is any permutation of s that is ordered by
\* operator<.
RECURSIVE SortResults(_)
SortResults(s) ==
    IF s = <<>> THEN {<<>>}
    ELSE UNION {{<<s[k]>> \o r : r \in SortResults(RemoveAt(s, k))} :
                k \in {m \in 1..Len(s) : \A n \in 1..Len(s) : ~EntryLess(s[n], s[m])}}

\* DocumentList::accept
accept(path, filter) ==
    CASE filter = "Any" ->
            \/ extension(path) = ".txt"
            \/ extension(path) = ".ctx"
            \/ extension(path) = ".cobs_doc"
            \/ extension(path) = ".fasta"
            \/ extension(path) = ".fastq"
      [] filter = "Text" -> extension(path) = ".txt"
      [] filter = "Cortex" -> extension(path) = ".ctx"
      [] filter = "KMerBuffer" -> extension(path) = ".cobs_doc"
      [] filter = "Fasta" -> extension(path) = ".fasta"
      [] filter = "Fastq" -> extension(path) = ".fastq"
      [] OTHER -> FALSE

\* A file of the scanned tree: its path, fs::file_size, and (for a
\* multi-record file) the sizes of its records as FastaFile reports them.
File(p, sz, recs) == [path |-> p, size |-> sz, recs |-> recs]

\* FastaFile::num_documents and FastaFile::size(i)
num_documents(f) == Len(f.recs)
fasta_size(f, i) == f.recs[i + 1]

\* DocumentList::add: the entries appended to list_ for one file
add(f) ==
    IF extension(f.path) = ".txt" THEN <<Entry(f.path, "Text", f.size, 0)>>
    ELSE IF extension(f.path) = ".ctx" THEN <<Entry(f.path, "Cortex", f.size, 0)>>
    ELSE IF extension(f.path) = ".cobs_doc" THEN <<Entry(f.path, "KMerBuffer", f.size, 0)>>
    ELSE IF extension(f.path) = ".fasta"
        THEN [i \in 1..num_documents(f) |-> Entry(f.path, "Fasta", fasta_size(f, i - 1), i - 1)]
    ELSE <<>>

\* the loop of DocumentList(dir, filter) over the files in iteration order
RECURSIVE ScanDir(_, _)
ScanDir(order, filter) ==
    IF order = <<>> THEN <<>>
    ELSE (IF accept(Head(order).path, filter) THEN add(Head(order)) ELSE <<>>)
         \o ScanDir(Tail(order), filter)

\* The files a scanned directory may hold
FileUniverse ==
    { File(Path("a", ".txt"), 3, <<>>),
      File(Path("", ".ctx"), 2, <<>>),
      File(Path("b", ".cobs_doc"), 1, <<>>),
      File(Path("a", ".fasta"), 4, <<1, 2>>),
      File(Path("b", ".fastq"), 4, <<2, 1>>),
      File(Path("b", ".dat"), 1, <<>>) }

\* The entries a caller may hand to DocumentList(list)
EntryUniverse ==
    { Entry(Path("a", ".fasta"), "Fasta", 1, 0),
      Entry(Path("a", ".fasta"), "Fasta", 2, 1),
      Entry(Path("", ""), "Text", 2, 0),
      Entry(Path("b", ".txt"), "Text", 3, 0) }

\* The lists a caller hands to DocumentList(list): each document at most once
InputLists ==
    {l \in SeqsUpTo(EntryUniverse, MaxList) : Cardinality(Range(l)) = Len(l)}

IdleDL ==
    /\ dl_pc = "idle"
    /\ dl_ctor = "none"
    /\ dl_tree = {}
    /\ dl_filter = "Any"
    /\ list_ = <<>>
    /\ pb_size = 0
    /\ pb_i = 0
    /\ pb_j = 0
    /\ pb_batch = <<>>
    /\ pb_first = ""
    /\ pb_last = ""
    /\ pb_calls = <<>>

InitDLVars ==
    /\ dl_pc = "new"
    /\ dl_ctor = "none"
    /\ dl_tree = {}
    /\ dl_filter = "Any"
    /\ list_ = <<>>
    /\ pb_size = 0
    /\ pb_i = 0
    /\ pb_j = 0
    /\ pb_batch = <<>>
    /\ pb_first = ""
    /\ pb_last = ""
    /\ pb_calls = <<>>

pbVars == <<pb_size, pb_i, pb_j, pb_batch, pb_first, pb_last, pb_calls>>

\* DocumentList(const std::vector<DocumentEntry>& list)
ConstructFromList ==
    /\ dl_pc = "new"
    /\ \E input \in InputLists :
         \E sorted \in SortResults(input) :
            list_' = sorted
    /\ dl_pc' = "ready"
    /\ dl_ctor' = "list"
    /\ UNCHANGED <<dl_tree, dl_filter, pbVars, aioVars, cfVars, mgVars>>

\* DocumentList(const fs::path& dir, FileType filter)
ConstructFromDir ==
    /\ dl_pc = "new"
    /\ \E tree \in SUBSET FileUniverse, filter \in FileType :
         \E order \in Orders(tree) :
            \E sorted \in SortResults(ScanDir(order, filter)) :
               /\ list_' = sorted
               /\ dl_tree' = tree
               /\ dl_filter' = filter
    /\ dl_pc' = "ready"
    /\ dl_ctor' = "dir"
    /\ UNCHANGED <<pbVars, aioVars, cfVars, mgVars>>

\* process_batches(batch_size, func): entry, locals initialised
ProcessBatchesBegin ==
    /\ dl_pc = "ready"
    /\ \E batch_size \in 1..MaxBatch : pb_size' = batch_size
    /\ pb_first' = ""
    /\ pb_last' = ""
    /\ pb_j' = 1
    /\ pb_batch' = <<>>
    /\ pb_i' = 0
    /\ pb_calls' = <<>>
    /\ dl_pc' = "batching"
    /\ UNCHANGED <<dl_ctor, dl_tree, dl_filter, list_, aioVars, cfVars, mgVars>>

\* the name handed to func
OutFile(first_filename, last_filename) ==
    "[" \o first_filename \o "-" \o last_filename \o "]"

\* the test that closes a batch
BatchFull(batch, batch_size, i) ==
    \/ Len(batch) = batch_size
    \/ (batch # <<>> /\ i + 1 = Len(list_))

\* process_batches: one iteration of the for loop
ProcessBatchesStep ==
    /\ dl_pc = "batching"
    /\ pb_i < Len(list_)
    /\ LET filename == base_name(list_[pb_i + 1].path_)
           first == IF pb_first = "" THEN filename ELSE pb_first
           batch == Append(pb_batch, list_[pb_i + 1])
       IN  /\ pb_last' = filename
           /\ IF BatchFull(batch, pb_size, pb_i)
              THEN /\ pb_calls' = Append(pb_calls,
                                         [batch |-> batch, name |-> OutFile(first, filename)])
                   /\ pb_batch' = <<>>
                   /\ pb_first' = ""
                   /\ pb_j' = pb_j + 1
              ELSE /\ pb_batch' = batch
                   /\ pb_first' = first
                   /\ UNCHANGED <<pb_calls, pb_j>>
    /\ pb_i' = pb_i + 1
    /\ UNCHANGED <<dl_pc, dl_ctor, dl_tree, dl_filter, list_, pb_size, aioVars, cfVars, mgVars>>

\* process_batches: the for loop ends and the function returns
ProcessBatchesEnd ==
    /\ dl_pc = "batching"
    /\ pb_i = Len(list_)
    /\ dl_pc' = "batched"
    /\ UNCHANGED <<dl_ctor, dl_tree, dl_filter, list_, pbVars, aioVars, cfVars, mgVars>>

NextDL ==
    \/ ConstructFromList
    \/ ConstructFromDir
    \/ ProcessBatchesBegin
    \/ ProcessBatchesStep
    \/ ProcessBatchesEnd


\* ------------------------------------------------------------------------
\* isi::query::compact_index::aio
\* ------------------------------------------------------------------------

\* Bounds of the aio model
MaxSub == 2          \* sub-indices of a header: 0..MaxSub
MaxSig == 2          \* signature sizes: 1..MaxSig
MaxHashes == 2       \* hashes of one read_from_disk call: 0..MaxHashes
MaxHash == 3         \* hash values: 0..MaxHash
IocbCount == 3       \* elements of m_iocbs and of m_iocbpp (declared in aio.hpp,
                     \* scaled down here so that S * |hashes| can exceed it)

\* isi::get_page_size(), the 4096 of the constructor's message
OsPageSize == 4096

\* page sizes a header may declare (the last one is refused)
PageSizes == {OsPageSize, 2 * OsPageSize, OsPageSize + OsPageSize \div 2}

\* byte lengths of the serialized header before its padding
HeaderLens == {10, OsPageSize, 2 * OsPageSize + 1}

\* m_smd.curr_pos as the base class leaves it: the end of the header,
\* padded with zero bytes to the next page boundary
PaddedHeaderEnd(hlen, P) == CeilDiv(hlen, P) * P

\* a pointer into the caller's rows buffer, and any pointer outside it
RowsPtr(off) == [base |-> "rows", off |-> off]
WildPtr == [base |-> "wild", off |-> 0]

\* the loop of the constructor with parameters()[i] in the place of
\* parameters()[i - 1]
RECURSIVE OffsetAt_SameIndex(_, _, _, _)
OffsetAt_SameIndex(k, pos, P, sigs) ==
    IF k = 1 THEN pos
    ELSE OffsetAt_SameIndex(k - 1, pos, P, sigs) + P * sigs[k]

\* m_offsets[k - 1] as the constructor's loop computes it (k is 1-based)
RECURSIVE OffsetAt(_, _, _, _)
OffsetAt(k, pos, P, sigs) ==
    IF k = 1 THEN pos
    ELSE OffsetAt(k - 1, pos, P, sigs) + P * sigs[k - 1]

\* m_offsets after resize(S) and the writes of the constructor that fall
\* inside the table
ComputeOffsets(pos, P, sigs) == [k \in 1..Len(sigs) |-> OffsetAt(k, pos, P, sigs)]

\* the values an iocb field that was never assigned may hold
IndeterminateOffsets == {0, OsPageSize}

IdleAio ==
    /\ aio_pc = "idle"
    /\ aio_exit = "none"
    /\ hdr_page_size = 0
    /\ hdr_sigs = <<>>
    /\ curr_pos = 0
    /\ m_offsets = <<>>
    /\ offsets_oob = FALSE
    /\ m_iocbs = <<>>
    /\ m_iocbpp = <<>>
    /\ rd_hashes = <<>>
    /\ rd_set = {}
    /\ rd_submitted = <<>>
    /\ rd_ret = 0
    /\ rows_mem = <<>>

\* before construction: the index file's header is on disk
InitAioVars ==
    /\ aio_pc = "new"
    /\ aio_exit = "none"
    /\ hdr_page_size \in PageSizes
    /\ hdr_sigs \in SeqsUpTo(1..MaxSig, MaxSub)
    /\ \E hlen \in HeaderLens : curr_pos = PaddedHeaderEnd(hlen, hdr_page_size)
    /\ m_offsets = <<>>
    /\ offsets_oob = FALSE
    /\ m_iocbs = <<>>
    /\ m_iocbpp = <<>>
    /\ rd_hashes = <<>>
    /\ rd_set = {}
    /\ rd_submitted = <<>>
    /\ rd_ret = 0
    /\ rows_mem = <<>>

rdVars == <<rd_hashes, rd_set, rd_submitted, rd_ret, rows_mem>>
hdrVars == <<hdr_page_size, hdr_sigs, curr_pos>>

\* aio::aio(path): assert_exit, the offset table, the control blocks
AioConstruct ==
    /\ aio_pc = "new"
    /\ IF hdr_page_size % OsPageSize # 0
       THEN /\ aio_pc' = "exit_error"
            /\ aio_exit' = "page_size"
            /\ UNCHANGED <<m_offsets, offsets_oob, m_iocbs, m_iocbpp>>
       ELSE /\ m_offsets' = ComputeOffsets(curr_pos, hdr_page_size, hdr_sigs)
            \* m_offsets[0] is written even when the table has no element
            /\ offsets_oob' = (Len(hdr_sigs) = 0)
            /\ \E garbage \in IndeterminateOffsets :
                  m_iocbs' = [k \in 1..IocbCount |->
                                 [aio_buf |-> WildPtr,
                                  aio_offset |-> garbage,
                                  aio_nbytes |-> hdr_page_size]]
            /\ m_iocbpp' = [k \in 1..IocbCount |-> k]
            /\ aio_pc' \in (IF Len(hdr_sigs) = 0 THEN {"ready", "crashed"} ELSE {"ready"})
            /\ UNCHANGED aio_exit
    /\ UNCHANGED <<hdrVars, rdVars, dlVars, cfVars, mgVars>>

\* the values one iteration (i, j) of the setup loop stores (i, j 0-based)
SetupBuf(i, j, S, P) == RowsPtr((i + j * S) * P)
SetupOffset(i, j, hashes, sigs, offsets, P) ==
    offsets[i + 1] + (hashes[j + 1] % sigs[i + 1]) * P

\* read_from_disk: the setup loop. Every iteration (i, j) stores into
\* m_iocbs[i]; the iterations run in parallel, so for each i the buffer and
\* the offset that remain are those of some j each.
ReadSetup ==
    /\ aio_pc \in {"ready", "returned"}
    /\ \E hashes \in SeqsUpTo(0..MaxHash, MaxHashes) :
         LET S == Len(hdr_sigs)
             H == Len(hashes)
         IN  /\ rd_hashes' = hashes
             /\ IF H = 0
                THEN /\ m_iocbs' = m_iocbs
                     /\ rd_set' = {}
                ELSE /\ \E last \in [1..S -> (0..(H - 1)) \X (0..(H - 1))] :
                          m_iocbs' = [k \in 1..IocbCount |->
                             IF k <= S
                             THEN [aio_buf |-> SetupBuf(k - 1, last[k][1], S, hdr_page_size),
                                   aio_offset |-> SetupOffset(k - 1, last[k][2], hashes,
                                                              hdr_sigs, m_offsets,
                                                              hdr_page_size),
                                   aio_nbytes |-> m_iocbs[k].aio_nbytes]
                             ELSE m_iocbs[k]]
                     /\ rd_set' = 1..S
             /\ rows_mem' = [k \in 0..(S * H - 1) |-> 0]
    /\ rd_submitted' = <<>>
    /\ rd_ret' = 0
    /\ aio_pc' = "submit"
    /\ UNCHANGED <<aio_exit, hdrVars, m_offsets, offsets_oob, m_iocbpp, dlVars, cfVars, mgVars>>

\* num_requests = m_header.parameters().size() * hashes.size()
num_requests == Len(hdr_sigs) * Len(rd_hashes)

\* the k-th request io_submit reads through m_iocbpp.data() (k is 1-based);
\* past the end of m_iocbpp the pointer read is not one of the control blocks
RequestAt(k) ==
    IF k <= IocbCount
    THEN [cb |-> m_iocbpp[k],
          aio_buf |-> m_iocbs[m_iocbpp[k]].aio_buf,
          aio_offset |-> m_iocbs[m_iocbpp[k]].aio_offset,
          aio_nbytes |-> m_iocbs[m_iocbpp[k]].aio_nbytes]
    ELSE [cb |-> 0, aio_buf |-> WildPtr, aio_offset |-> 0, aio_nbytes |-> 0]

\* read_from_disk: io_submit(m_ctx, num_requests, m_iocbpp.data()) and the
\* test of its result; the kernel accepts ret of the requests, or fails
ReadSubmit ==
    /\ aio_pc = "submit"
    /\ rd_submitted' = [k \in 1..num_requests |-> RequestAt(k)]
    /\ \E ret \in -1..num_requests :
         /\ rd_ret' = ret
         /\ IF ret # num_requests
            THEN /\ aio_pc' = "exit_error"
                 /\ aio_exit' = "io_submit"
            ELSE /\ aio_pc' = "wait"
                 /\ UNCHANGED aio_exit
    /\ UNCHANGED <<hdrVars, m_offsets, offsets_oob, m_iocbs, m_iocbpp, rd_hashes,
                   rd_set, rows_mem, dlVars, cfVars, mgVars>>

\* file offsets of the pages the accepted requests read into slot k of rows
PagesInto(k) ==
    {rd_submitted[r].aio_offset : r \in
        {q \in 1..Len(rd_submitted) :
            rd_submitted[q].aio_buf = RowsPtr(k * hdr_page_size)}}

\* rows after all requests completed: a slot holds the page of one of the
\* requests that read into it, and is untouched when none did
RowsAfter ==
    {f \in [DOMAIN rows_mem -> {0} \cup UNION {PagesInto(k) : k \in DOMAIN rows_mem}] :
        \A k \in DOMAIN rows_mem :
            IF PagesInto(k) = {} THEN f[k] = rows_mem[k] ELSE f[k] \in PagesInto(k)}

\* read_from_disk: io_getevents(m_ctx, num_requests, num_requests, events, 0)
\* and the test of its result. events has hashes.size() elements: when
\* num_requests is larger the completions are written past its end.
ReadGetEvents ==
    /\ aio_pc = "wait"
    /\ \E ret \in {-1, num_requests} :
         /\ rd_ret' = ret
         /\ IF ret < num_requests
            THEN /\ aio_pc' = "exit_error"
                 /\ aio_exit' = "io_getevents"
                 /\ UNCHANGED rows_mem
            ELSE /\ rows_mem' \in RowsAfter
                 /\ aio_pc' \in (IF num_requests > Len(rd_hashes)
                                 THEN {"returned", "crashed"}
                                 ELSE {"returned"})
                 /\ UNCHANGED aio_exit
    /\ UNCHANGED <<hdrVars, m_offsets, offsets_oob, m_iocbs, m_iocbpp, rd_hashes,
                   rd_set, rd_submitted, dlVars, cfVars, mgVars>>

NextAio ==
    \/ AioConstruct
    \/ ReadSetup
    \/ ReadSubmit
    \/ ReadGetEvents

\* ------------------------------------------------------------------------
\* genome::msbf::create_folders and create_msbf_from_samples
\* ------------------------------------------------------------------------

\* Bounds of the create_folders model
MaxGroupSize == 3    \* msbf_batch_size: 1..MaxGroupSize

\* the multiple the processing batch size must be of (assert(batch_size % 8 == 0))
BatchMultiple == 8

\* processing batch sizes a caller may pass (the middle one is invalid)
ProcessingBatchSizes == {BatchMultiple, BatchMultiple + BatchMultiple \div 2, 2 * BatchMultiple}

\* genome::file::sample_header::file_extension
SampleExt == "sample"

\* a regular file below in_dir: its directory, file name, extension, size
RegularFile(d, n, e, sz) == [dir |-> d, name |-> n, ext |-> e, size |-> sz]

\* The regular files in_dir may hold, in two sub-directories
SampleUniverse ==
    { RegularFile("x", "s1", SampleExt, 1),
      RegularFile("y", "s1", SampleExt, 2),
      RegularFile("x", "s2", SampleExt, 2),
      RegularFile("y", "s3", SampleExt, 3),
      RegularFile("x", "s4", SampleExt, 4),
      RegularFile("x", "n1", "other", 1) }

\* boost::filesystem::path::filename()
filename(f) == [name |-> f.name, ext |-> f.ext]

\* the comparator of the sort in create_folders
SizeLess(p1, p2) == p1.size < p2.size

\* std::sort(paths.begin(), paths.end(), by file_size): any permutation of
\* s that is ordered by the comparator
RECURSIVE SizeSortResults(_)
SizeSortResults(s) ==
    IF s = <<>> THEN {<<>>}
    ELSE UNION {{<<s[k]>> \o r : r \in SizeSortResults(RemoveAt(s, k))} :
                k \in {m \in 1..Len(s) : \A n \in 1..Len(s) : ~SizeLess(s[n], s[m])}}

\* boost::filesystem::rename(p, sub_out_dir / p.filename()): p leaves in_dir
\* and becomes the file of that name in the group directory, replacing a
\* file of the same name already there
RenameInto(out, p, group) ==
    {t \in out : ~(t.group = group /\ t.fname = filename(p))}
        \cup {[group |-> group, fname |-> filename(p), src |-> p]}

IdleCf ==
    /\ cf_pc = "idle"
    /\ cf_input = {}
    /\ cf_in = {}
    /\ cf_out = {}
    /\ cf_dirs = {}
    /\ cf_G = 0
    /\ cf_pbs = 0
    /\ cf_ndebug = FALSE
    /\ cf_paths = <<>>
    /\ cf_k = 0
    /\ cf_batch = 0
    /\ cf_i = 0
    /\ cf_sub = 0

\* before create_msbf_from_samples(in_dir, out_dir, msbf_batch_size,
\* processing_batch_size, ...): the arguments and the files of in_dir
InitCfVars ==
    /\ cf_pc = "new"
    /\ cf_input \in SUBSET SampleUniverse
    /\ cf_in = cf_input
    /\ cf_out = {}
    /\ cf_dirs = {}
    /\ cf_G \in 1..MaxGroupSize
    /\ cf_pbs \in ProcessingBatchSizes
    /\ cf_ndebug \in BOOLEAN
    /\ cf_paths = <<>>
    /\ cf_k = 0
    /\ cf_batch = 0
    /\ cf_i = 0
    /\ cf_sub = 0

cfArgs == <<cf_input, cf_G, cf_pbs, cf_ndebug>>

\* create_msbf_from_samples calls create_folders(in_dir, samples_dir,
\* msbf_batch_size): the regular files are collected and sorted by size
CreateFoldersBegin ==
    /\ cf_pc = "new"
    /\ \E order \in Orders(cf_in) :
         \E sorted \in SizeSortResults(order) :
            cf_paths' = sorted
    /\ cf_k' = 0
    /\ cf_batch' = 1
    /\ cf_i' = 0
    /\ cf_sub' = 0
    /\ cf_pc' = "folders"
    /\ UNCHANGED <<cfArgs, cf_in, cf_out, cf_dirs, dlVars, aioVars, mgVars>>

\* create_folders: one iteration of the loop over paths
CreateFoldersStep ==
    /\ cf_pc = "folders"
    /\ cf_k < Len(cf_paths)
    /\ LET p == cf_paths[cf_k + 1]
           opens == cf_i % cf_G = 0
           sub == IF opens THEN cf_batch ELSE cf_sub
       IN  IF p.ext = SampleExt
           THEN /\ cf_sub' = sub
                /\ cf_dirs' = IF opens THEN cf_dirs \cup {cf_batch} ELSE cf_dirs
                /\ cf_batch' = IF opens THEN cf_batch + 1 ELSE cf_batch
                /\ cf_out' = RenameInto(cf_out, p, sub)
                /\ cf_in' = cf_in \ {p}
                /\ cf_i' = cf_i + 1
           ELSE UNCHANGED <<cf_sub, cf_dirs, cf_batch, cf_out, cf_in, cf_i>>
    /\ cf_k' = cf_k + 1
    /\ UNCHANGED <<cfArgs, cf_pc, cf_paths, dlVars, aioVars, mgVars>>

\* create_folders returns; create_msbf_from_samples goes on to
\* create_bloom_filters_from_samples
CreateFoldersEnd ==
    /\ cf_pc = "folders"
    /\ cf_k = Len(cf_paths)
    /\ cf_pc' = "blooms"
    /\ UNCHANGED <<cfArgs, cf_in, cf_out, cf_dirs, cf_paths, cf_k, cf_batch, cf_i,
                   cf_sub, dlVars, aioVars, mgVars>>

\* create_bloom_filters_from_samples: assert(batch_size % 8 == 0), which a
\* build with NDEBUG does not evaluate, then the filters of every group
CreateBloomFilters ==
    /\ cf_pc = "blooms"
    /\ cf_pc' = IF ~cf_ndebug /\ cf_pbs % BatchMultiple # 0
                THEN "assert_failed"
                ELSE "bloomed"
    /\ UNCHANGED <<cfArgs, cf_in, cf_out, cf_dirs, cf_paths, cf_k, cf_batch, cf_i,
                   cf_sub, dlVars, aioVars, mgVars>>

NextFolders ==
    \/ CreateFoldersBegin
    \/ CreateFoldersStep
    \/ CreateFoldersEnd
    \/ CreateBloomFilters

\* ------------------------------------------------------------------------
\* genome::msbf::combine_bloom_filters and the merge loop
\* ------------------------------------------------------------------------

\* Bounds of the merge model
MaxMergeGroups == 3  \* group directories of a level: 1..MaxMergeGroups
MaxBlocks == 10      \* blocks of a group directory: 1..MaxBlocks

\* batch sizes of a merge: processing_batch_size, a multiple of BatchMultiple
MergeBatchSizes == {BatchMultiple, 2 * BatchMultiple}

\* genome::bloom_filter::combine_bloom_filters on one group directory of n
\* blocks: every batch_size consecutive blocks become one block of the next
\* level; the result says whether one block is all that remains
CombineGroupBlocks(n, batch_size) == CeilDiv(n, batch_size)
CombineGroupDone(n, batch_size) == CombineGroupBlocks(n, batch_size) <= 1

\* the loop of combine_bloom_filters over the group directories in
\* iteration order: the value all_combined holds after it
RECURSIVE AllCombined(_, _, _, _)
AllCombined(order, blocks, batch_size, all_combined) ==
    IF order = <<>> THEN all_combined
    ELSE AllCombined(Tail(order), blocks, batch_size,
                     IF blocks[Head(order)] # 0
                     THEN CombineGroupDone(blocks[Head(order)], batch_size)
                     ELSE all_combined)

\* the group directories of the next level: one for every group that held
\* a block
NextLevelBlocks(blocks, batch_size) ==
    [g \in {h \in DOMAIN blocks : blocks[h] # 0} |->
        CombineGroupBlocks(blocks[g], batch_size)]

IdleMg ==
    /\ mg_pc = "idle"
    /\ mg_blocks = <<>>
    /\ mg_B = 0
    /\ mg_iter = 0
    /\ mg_ret = FALSE

\* create_msbf_from_samples after create_bloom_filters_from_samples: the
\* group directories of bloom1 hold their blocks, iteration = 1
InitMgVars ==
    /\ mg_pc = "loop"
    /\ \E n \in 1..MaxMergeGroups : mg_blocks \in [1..n -> 1..MaxBlocks]
    /\ mg_B \in MergeBatchSizes
    /\ mg_iter = 1
    /\ mg_ret = FALSE

\* one turn of while(!combine_bloom_filters(bloom<iteration>,
\* bloom<iteration + 1>, processing_batch_size)) iteration++
MergeLevel ==
    /\ mg_pc = "loop"
    /\ \E order \in Orders(DOMAIN mg_blocks) :
         LET all_combined == AllCombined(order, mg_blocks, mg_B, FALSE)
         IN  /\ mg_ret' = all_combined
             /\ mg_blocks' = NextLevelBlocks(mg_blocks, mg_B)
             /\ IF all_combined
                THEN /\ mg_pc' = "done"
                     /\ UNCHANGED mg_iter
                ELSE /\ mg_iter' = mg_iter + 1
                     /\ UNCHANGED mg_pc
    /\ UNCHANGED <<mg_B, dlVars, aioVars, cfVars>>

NextMerge == MergeLevel

\* ------------------------------------------------------------------------
\* Specifications
\* ------------------------------------------------------------------------

InitDL == InitDLVars /\ IdleAio /\ IdleCf /\ IdleMg
SpecDL == InitDL /\ [][NextDL]_vars

InitAio == IdleDL /\ InitAioVars /\ IdleCf /\ IdleMg
SpecAio == InitAio /\ [][NextAio]_vars

\* the constructor of the aio backend alone
SpecAioCtor == InitAio /\ [][AioConstruct]_vars

InitFolders == IdleDL /\ IdleAio /\ InitCfVars /\ IdleMg
SpecFolders == InitFolders /\ [][NextFolders]_vars

InitMerge == IdleDL /\ IdleAio /\ IdleCf /\ InitMgVars
SpecMerge == InitMerge /\ [][NextMerge]_vars

\* ------------------------------------------------------------------------
\* Claims about cobs::DocumentList
\* ------------------------------------------------------------------------

\* the k-th consecutive run of at most B entries of the list
Run(k, B) == SubSeq(list_, (k - 1) * B + 1, Min(k * B, Len(list_)))

\* C1 (as claimed): when process_batches(B, f) has returned, f was called
\* exactly ceil(N/B) times, the k-th call received the k-th consecutive run
\* of the list (B entries, the last run between 1 and B), and the name of
\* each call is "[" + base name of the run's first entry + "-" + base name
\* of the run's last entry + "]".
C1_BatchesAndNames ==
    dl_pc = "batched" =>
        /\ Len(pb_calls) = CeilDiv(Len(list_), pb_size)
        /\ \A k \in 1..Len(pb_calls) :
              /\ pb_calls[k].batch = Run(k, pb_size)
              /\ Len(pb_calls[k].batch) \in 1..pb_size
              /\ (k < Len(pb_calls) => Len(pb_calls[k].batch) = pb_size)
              /\ pb_calls[k].name =
                    "[" \o base_name(Run(k, pb_size)[1].path_) \o "-"
                        \o base_name(Run(k, pb_size)[Len(Run(k, pb_size))].path_) \o "]"

\* the part of C1 about the runs alone (number, contents, sizes), without
\* the names
C1_RunsPartitionList ==
    dl_pc = "batched" =>
        /\ Len(pb_calls) = CeilDiv(Len(list_), pb_size)
        /\ \A k \in 1..Len(pb_calls) :
              /\ pb_calls[k].batch = Run(k, pb_size)
              /\ Len(pb_calls[k].batch) \in 1..pb_size
              /\ (k < Len(pb_calls) => Len(pb_calls[k].batch) = pb_size)

\* the names are as claimed whenever no run starts with an empty base name
C1_NamesWhenFirstNonEmpty ==
    dl_pc = "batched" =>
        \A k \in 1..Len(pb_calls) :
            LET r == pb_calls[k].batch
            IN  base_name(r[1].path_) # "" =>
                    pb_calls[k].name =
                        "[" \o base_name(r[1].path_) \o "-" \o base_name(r[Len(r)].path_) \o "]"

\* C2 (as claimed): after either constructor returned, adjacent entries of
\* list() ascend in (path, sub-index), and two entries that compare equal
\* under operator< have the same path and the same sub-index.
C2_SortedByPathAndSubdoc ==
    dl_pc = "ready" =>
        /\ \A k \in 1..(Len(list_) - 1) :
              \/ PathLess(list_[k].path_, list_[k + 1].path_)
              \/ /\ list_[k].path_ = list_[k + 1].path_
                 /\ list_[k].subdoc_index_ < list_[k + 1].subdoc_index_
        /\ \A a, b \in Range(list_) :
              (~EntryLess(a, b) /\ ~EntryLess(b, a)) =>
                  (a.path_ = b.path_ /\ a.subdoc_index_ = b.subdoc_index_)

\* what the constructors do establish: the list ascends weakly by path
C2_SortedByPathOnly ==
    dl_pc = "ready" =>
        \A k \in 1..(Len(list_) - 1) : ~PathLess(list_[k + 1].path_, list_[k].path_)

\* the document kind the external interface assigns to an extension
KindOfExt(e) ==
    CASE e = ".txt" -> "Text"
      [] e = ".ctx" -> "Cortex"
      [] e = ".cobs_doc" -> "KMerBuffer"
      [] e = ".fasta" -> "Fasta"
      [] e = ".fastq" -> "Fastq"
      [] OTHER -> "None"

MultiRecord(kind) == kind \in {"Fasta", "Fastq"}

MatchesFilter(e, filter) ==
    KindOfExt(e) # "None" /\ (filter = "Any" \/ filter = KindOfExt(e))

\* positions of the entries of list_ that belong to file f
EntriesOf(f) == {k \in 1..Len(list_) : list_[k].path_ = f.path}

\* C3 (as claimed): after DocumentList(dir, filter), every file matching the
\* filter has exactly one entry (single-record kinds) or one entry per
\* record with sub-indices 0..n-1 (multi-record kinds: .fasta and .fastq),
\* each tagged with the kind of its extension, and there is no entry for
\* any other file.
C3_OneEntryPerRecord ==
    (dl_pc = "ready" /\ dl_ctor = "dir") =>
        /\ \A f \in dl_tree :
              IF MatchesFilter(f.path.ext, dl_filter)
              THEN /\ \A k \in EntriesOf(f) : list_[k].type_ = KindOfExt(f.path.ext)
                   /\ IF MultiRecord(KindOfExt(f.path.ext))
                      THEN /\ Cardinality(EntriesOf(f)) = Len(f.recs)
                           /\ {list_[k].subdoc_index_ : k \in EntriesOf(f)} =
                                 0..(Len(f.recs) - 1)
                      ELSE Cardinality(EntriesOf(f)) = 1
              ELSE EntriesOf(f) = {}
        /\ \A k \in 1..Len(list_) : \E f \in dl_tree : f.path = list_[k].path_

\* C3 holds of every file that is not a .fastq file
C3_ExceptFastq ==
    (dl_pc = "ready" /\ dl_ctor = "dir") =>
        /\ \A f \in dl_tree :
              f.path.ext # ".fastq" =>
                  IF MatchesFilter(f.path.ext, dl_filter)
                  THEN /\ \A k \in EntriesOf(f) : list_[k].type_ = KindOfExt(f.path.ext)
                       /\ IF MultiRecord(KindOfExt(f.path.ext))
                          THEN /\ Cardinality(EntriesOf(f)) = Len(f.recs)
                               /\ {list_[k].subdoc_index_ : k \in EntriesOf(f)} =
                                     0..(Len(f.recs) - 1)
                          ELSE Cardinality(EntriesOf(f)) = 1
                  ELSE EntriesOf(f) = {}
        /\ \A k \in 1..Len(list_) : \E f \in dl_tree : f.path = list_[k].path_

\* ------------------------------------------------------------------------
\* Claims about isi::query::compact_index::aio
\* ------------------------------------------------------------------------

\* the constructor ran to its end
AioConstructed == aio_pc \notin {"idle", "new"} /\ aio_exit # "page_size"

\* what the request of the pair (sub-index i, hash position j) must read
\* (i, j 0-based)
ExpectedBuf(i, j) == RowsPtr((i + j * Len(hdr_sigs)) * hdr_page_size)
ExpectedOffset(i, j) ==
    m_offsets[i + 1] + (rd_hashes[j + 1] % hdr_sigs[i + 1]) * hdr_page_size

\* C4 (as claimed): when read_from_disk(hashes, rows) has returned, exactly
\* one request was submitted for each pair (i, j), reading P bytes at
\* m_offsets[i] + (hashes[j] mod signature_size_i) * P into
\* rows + (i + j*S) * P; every page slot of rows holds the page of its own
\* pair; no two submitted requests share a destination or a control block.
C4_OneRequestPerPair ==
    aio_pc = "returned" =>
        /\ Len(rd_submitted) = Len(hdr_sigs) * Len(rd_hashes)
        /\ \A i \in 0..(Len(hdr_sigs) - 1), j \in 0..(Len(rd_hashes) - 1) :
              /\ Cardinality({r \in 1..Len(rd_submitted) :
                                /\ rd_submitted[r].aio_buf = ExpectedBuf(i, j)
                                /\ rd_submitted[r].aio_offset = ExpectedOffset(i, j)
                                /\ rd_submitted[r].aio_nbytes = hdr_page_size}) = 1
              /\ rows_mem[i + j * Len(hdr_sigs)] = ExpectedOffset(i, j)
        /\ \A r1, r2 \in 1..Len(rd_submitted) :
              r1 # r2 => /\ rd_submitted[r1].aio_buf # rd_submitted[r2].aio_buf
                         /\ rd_submitted[r1].cb # rd_submitted[r2].cb

\* C4 does hold of the calls with at most one hash
C4_HoldsForOneHash ==
    (aio_pc = "returned" /\ Len(rd_hashes) <= 1) =>
        /\ Len(rd_submitted) = Len(hdr_sigs) * Len(rd_hashes)
        /\ \A i \in 0..(Len(hdr_sigs) - 1), j \in 0..(Len(rd_hashes) - 1) :
              /\ Cardinality({r \in 1..Len(rd_submitted) :
                                /\ rd_submitted[r].aio_buf = ExpectedBuf(i, j)
                                /\ rd_submitted[r].aio_offset = ExpectedOffset(i, j)
                                /\ rd_submitted[r].aio_nbytes = hdr_page_size}) = 1
              /\ rows_mem[i + j * Len(hdr_sigs)] = ExpectedOffset(i, j)

\* C6: after the constructor completed on a header with S >= 1 sub-indices,
\* every base offset is a multiple of the page size P, consecutive offsets
\* differ by signature_size_s * P, and the offset table has exactly S
\* elements with no write outside it.
C6_OffsetsPageAligned ==
    (AioConstructed /\ Len(hdr_sigs) >= 1) =>
        /\ DOMAIN m_offsets = 1..Len(hdr_sigs)
        /\ ~offsets_oob
        /\ \A s \in 1..Len(hdr_sigs) : m_offsets[s] % hdr_page_size = 0
        /\ \A s \in 1..(Len(hdr_sigs) - 1) :
              m_offsets[s + 1] - m_offsets[s] = hdr_sigs[s] * hdr_page_size

\* C6 witness: a constructed backend with two sub-indices of different
\* signature sizes behind a header longer than one page
C6_Witness ==
    /\ aio_pc = "ready"
    /\ Len(hdr_sigs) >= 2
    /\ hdr_sigs[1] # hdr_sigs[2]
    /\ curr_pos > hdr_page_size
    /\ m_offsets[2] = curr_pos + hdr_sigs[1] * hdr_page_size

\* C7 (as claimed): when io_submit accepts fewer requests than were asked
\* for, the process does not terminate with an error (the backend falls back
\* to synchronous reads and the probe completes).
C7_ShortSubmitRecovers ==
    ~(/\ aio_pc = "exit_error"
      /\ aio_exit = "io_submit"
      /\ rd_ret >= 0
      /\ rd_ret < num_requests)

\* C10 (as claimed): the number of requests handed to io_submit never
\* exceeds the number of control blocks prepared at construction, and every
\* submitted pointer refers to a control block whose buffer and offset were
\* set for this call.
C10_SubmittedBlocksPrepared ==
    /\ Len(rd_submitted) <= IocbCount
    /\ \A r \in 1..Len(rd_submitted) : rd_submitted[r].cb \in rd_set

\* ------------------------------------------------------------------------
\* Claims about genome::msbf
\* ------------------------------------------------------------------------

\* the sample files among a set of regular files
Samples(files) == {f \in files : f.ext = SampleExt}

\* the files of group directory g
InGroup(g) == {t \in cf_out : t.group = g}

\* create_folders has returned
FoldersDone == cf_pc \in {"blooms", "bloomed", "assert_failed"}

\* the statement of C5 about N sample files and group size G
GroupsAsClaimed ==
    LET N == Cardinality(Samples(cf_input))
        n == CeilDiv(N, cf_G)
    IN  /\ cf_dirs = 1..n
        /\ \A t \in cf_out : t.group \in 1..n
        /\ \A g \in 1..n :
              Cardinality(InGroup(g)) = IF g < n THEN cf_G ELSE N - cf_G * (n - 1)
        /\ \A g \in 1..(n - 1) :
              \A a \in InGroup(g), b \in InGroup(g + 1) : a.src.size <= b.src.size
        /\ \A f \in Samples(cf_input) :
              /\ Cardinality({t \in cf_out : t.src = f}) = 1
              /\ f \notin cf_in
        /\ \A f \in cf_input \ Samples(cf_input) :
              /\ f \in cf_in
              /\ \A t \in cf_out : t.src # f

\* C5 (as claimed): create_folders moves the N sample files, ascending by
\* size, into group directories 1..ceil(N/G); every group holds exactly G
\* files except the last, which holds N - G*(ceil(N/G)-1); every file of
\* group g is no larger than every file of group g+1; each sample file ends
\* up in exactly one group; files without the sample extension are neither
\* moved nor counted.
C5_GroupsOfExactlyG == FoldersDone => GroupsAsClaimed

\* C5 does hold when no two sample files below in_dir have the same name
C5_HoldsForDistinctNames ==
    (FoldersDone /\ \A f1, f2 \in Samples(cf_input) :
                        f1 # f2 => filename(f1) # filename(f2))
        => GroupsAsClaimed

\* C8 (as claimed): when the batch size is not a multiple of 8, at the moment
\* the assert detects it no sample file has been moved out of the input
\* directory and no output directory has been created.
C8_RefusedBeforeAnyEffect ==
    cf_pc = "assert_failed" =>
        /\ cf_in = cf_input
        /\ cf_out = {}
        /\ cf_dirs = {}

\* C9 (as claimed): when combine_bloom_filters returns true and the merge
\* loop exits, every group directory of the level has been combined into a
\* single block.
C9_LoopExitsWithOneBlockPerGroup ==
    mg_pc = "done" => \A g \in DOMAIN mg_blocks : mg_blocks[g] = 1

\* what the loop does guarantee at its exit: some group was combined into a
\* single block
C9_SomeGroupCombined ==
    mg_pc = "done" => \E g \in DOMAIN mg_blocks : mg_blocks[g] = 1

====
